---- MODULE Spec2Model ----
(***************************************************************************)
(* Model of the AWS-KMS signing callback for the Hedera client             *)
(* (transactionSigner) and of the ECDSA ASN.1 signature codec              *)
(* (EcdsaAsn1Signature), byte for byte.                                    *)
(*                                                                         *)
(* Byte strings are sequences of naturals below 256.  An optional value    *)
(* (JavaScript undefined) is the empty tuple, a present value x is <<x>>.  *)
(***************************************************************************)
EXTENDS Integers, Sequences, FiniteSets, TLC

(***************************************************************************)
(* Bounds.                                                                 *)
(***************************************************************************)
\* Width of one signature component: 32 for secp256k1, scaled down here.
N == 2
\* Number of invocations of transactionSigner that may be in flight.
NumCalls == 2
\* Largest number of elements in a DER SEQUENCE offered to fromDER.
MaxElements == 3
\* Byte values: zero, a nonzero byte with its high bit clear, and a byte
\* with its high bit set.
Bytes == {0, 1, 128}
\* Messages handed to the signing callback.
Messages == {<<1>>, <<128, 0>>}

None == <<>>
Some(x) == <<x>>

\* All byte strings of a length within lo..hi.
BytesOfLength(lo, hi) == UNION {[1..n -> Bytes] : n \in lo..hi}

(***************************************************************************)
(* asn1-ts DERElement: tag octet, definite length, content octets.         *)
(***************************************************************************)
\* ASN1TagClass.universal, primitive construction, ASN1UniversalType.integer
TagInteger == 2
\* Universal primitive tags other than INTEGER: OCTET STRING, UTF8String.
NonIntegerTags == {4, 12}
\* ASN1TagClass.universal, constructed, ASN1UniversalType.sequence
TagSequence == 48

\* The error thrown by the asn1-ts decoder (truncation, bad length, ...).
ASN1Error == "ASN1Error"
\* The error thrown by EcdsaAsn1Signature.fromElement.
InvalidEcdsaSig == "Invalid EcdsaSig ASN.1 element"

\* DER definite length: short form below 128, else 0x81 and one octet
\* (lengths above 255 lie outside the bounds of this model).
EncodeLength(n) == IF n < 128 THEN <<n>> ELSE <<129, n>>

\* A plausible slip in an encoder of INTEGER content: redundant leading
\* zero octets are dropped (canonical DER integer content).
RECURSIVE DropLeadingZeros(_)
DropLeadingZeros(v) ==
    IF Len(v) > 1 /\ v[1] = 0 THEN DropLeadingZeros(Tail(v)) ELSE v

DERElementToBytesMinimal(tag, value) ==
    LET content == IF tag = TagInteger THEN DropLeadingZeros(value) ELSE value
    IN  <<tag>> \o EncodeLength(Len(content)) \o content

\* DERElement.toBytes(): the tag octet, the length, the value as it was set.
DERElementToBytes(tag, value) ==
    <<tag>> \o EncodeLength(Len(value)) \o value

\* DERElement.fromBytes(bytes): one element from the front of bytes; what
\* follows it is left unread.  ok = FALSE is a thrown ASN1Error.  The
\* high-tag-number form (tag number 31) and lengths above 255 lie outside
\* the bounds of this model and are not decoded.
DERElementFromBytes(bytes) ==
    LET bad == [ok |-> FALSE, tag |-> 0, value |-> <<>>, read |-> 0]
    IN  IF Len(bytes) < 2 THEN bad
        ELSE LET tag  == bytes[1]
                 b    == bytes[2]
                 long == b >= 128
                 hdr  == IF long THEN 3 ELSE 2
                 okLn == IF long
                           THEN b = 129 /\ Len(bytes) >= 3 /\ bytes[3] >= 128
                           ELSE TRUE
                 len  == IF long THEN bytes[3] ELSE b
             IN  IF tag % 32 = 31 \/ ~okLn THEN bad
                 ELSE IF Len(bytes) < hdr + len THEN bad
                 ELSE [ok    |-> TRUE,
                       tag   |-> tag,
                       value |-> SubSeq(bytes, hdr + 1, hdr + len),
                       read  |-> hdr + len]

\* The sequence getter: the content octets decoded as consecutive
\* DERElements.  ok = FALSE is a thrown ASN1Error.
RECURSIVE DecodeSequence(_)
DecodeSequence(value) ==
    IF value = <<>> THEN [ok |-> TRUE, elements |-> <<>>]
    ELSE LET next == DERElementFromBytes(value)
         IN  IF ~next.ok THEN [ok |-> FALSE, elements |-> <<>>]
             ELSE LET rest == DecodeSequence(SubSeq(value, next.read + 1, Len(value)))
                  IN  IF ~rest.ok THEN rest
                      ELSE [ok |-> TRUE,
                            elements |-> <<[tag |-> next.tag, value |-> next.value]>>
                                           \o rest.elements]

\* The sequence setter followed by toBytes(): the elements' encodings
\* concatenated under a constructed SEQUENCE tag.
RECURSIVE EncodeElements(_)
EncodeElements(elements) ==
    IF elements = <<>> THEN <<>>
    ELSE DERElementToBytes(elements[1].tag, elements[1].value)
           \o EncodeElements(Tail(elements))

EncodeSequence(elements) == DERElementToBytes(TagSequence, EncodeElements(elements))

(***************************************************************************)
(* EcdsaAsn1Signature                                                      *)
(***************************************************************************)
\* The outcome of a call that may throw.
Thrown(e) == [ok |-> FALSE, error |-> e, r |-> <<>>, s |-> <<>>]
Signature(r, s) == [ok |-> TRUE, error |-> "", r |-> r, s |-> s]

\* EcdsaAsn1Signature.fromElement.  Every member of a decoded sequence is a
\* DERElement, so of the three tests only the length test can fail; the
\* members' tags are not read.  The sequence getter refuses a primitive
\* element and does not look at the tag number.
fromElement(element) ==
    LET sequence == DecodeSequence(element.value)
    IN  IF (element.tag \div 32) % 2 = 0 \/ ~sequence.ok THEN Thrown(ASN1Error)
        ELSE IF Len(sequence.elements) # 2 THEN Thrown(InvalidEcdsaSig)
        ELSE Signature(sequence.elements[1].value, sequence.elements[2].value)

\* EcdsaAsn1Signature.fromDER
fromDER(buffer) ==
    LET element == DERElementFromBytes(buffer)
    IN  IF ~element.ok THEN Thrown(ASN1Error) ELSE fromElement(element)

\* EcdsaAsn1Signature.toBytes
toBytes(r, s) ==
    EncodeSequence(<<[tag |-> TagInteger, value |-> r],
                     [tag |-> TagInteger, value |-> s]>>)

(***************************************************************************)
(* transactionSigner                                                       *)
(***************************************************************************)
SINGING_ALGORITHM == "ECDSA_SHA_256"
MESSAGE_TYPE == "DIGEST"

\* Error messages thrown by transactionSigner, and the error a rejected
\* kmsClient.send promise carries.
KeyIdMissing == "Environment variable AWS_KMS_KEY_ID must be present"
SignatureNotFound == "Signature not found"
KmsSendError == "KMSServiceException"
BufferTypeError == "TypeError"

\* keccak256(Buffer.from(bytesToSign)): a deterministic digest, kept
\* symbolic (distinct messages have distinct digests).
Keccak256(bytes) == [keccak256 |-> bytes]

\* A test that lets an undefined key identifier through.
ConfigMissingEmptyOnly(keyId) == keyId = Some("")

\* !awsKmsKeyId : undefined or the empty string.
ConfigMissing(keyId) == keyId = None \/ keyId = Some("")

\* A response test that never fires.
PayloadMissingNever(response) == FALSE

\* !response.Signature
PayloadMissing(response) == response.Signature = None

\* The signCommandInput object literal.
SignCommandInput(hash, keyId) ==
    [Message |-> hash, KeyId |-> keyId,
     SigningAlgorithm |-> SINGING_ALGORITHM, MessageType |-> MESSAGE_TYPE]

\* A send that is issued a second time.
SendCommandTwice(log, command) == Append(Append(log, command), command)

\* kmsClient.send(command): one request leaves for the service.
SendCommand(log, command) == Append(log, command)

\* c[0] == 0 ? c.slice(1) : c   (c[0] of an empty array is undefined)
RawComponent(c) == IF Len(c) > 0 /\ c[1] = 0 THEN Tail(c) ELSE c

\* Buffer.concat([...]) of the two components.
RawSignature(sig) == RawComponent(sig.r) \o RawComponent(sig.s)

VARIABLES
    env,        \* process.env.AWS_KMS_KEY_ID, optional
    kmsClient,  \* the module-level KMS client
    calls,      \* the locals of each invocation of transactionSigner
    sent,       \* the commands each invocation handed to kmsClient.send
    promise,    \* the promise kmsClient.send returned to each invocation
    codec       \* a Signature taken through toBytes / fromDER on its own

vars == <<env, kmsClient, calls, sent, promise, codec>>

Invocations == 1..NumCalls

IdleCall ==
    [pc |-> "idle", bytesToSign |-> None, awsKmsKeyId |-> None, hash |-> None,
     response |-> None, ecdsaSignature |-> None, result |-> None,
     error |-> "", steps |-> <<>>, overlap |-> {}]

NoPromise == [state |-> "none", value |-> None]

IdleCodec ==
    [stage |-> "unused", elements |-> <<>>, der |-> <<>>,
     sig |-> Thrown(""), rawR |-> <<>>, rawS |-> <<>>]

Init ==
    /\ env \in {None, Some(""), Some("key-1")}
    /\ kmsClient = "KMSClient"
    /\ calls = [i \in Invocations |-> IdleCall]
    /\ sent = [i \in Invocations |-> <<>>]
    /\ promise = [i \in Invocations |-> NoPromise]
    /\ codec = IdleCodec

\* The value the await hands back to the wrong invocation: whatever the
\* first invocation's promise holds, once it is fulfilled.
AwaitedSharedSlot(i) ==
    IF promise[1].state = "fulfilled" THEN promise[1] ELSE promise[i]

\* await kmsClient.send(command): the settled promise of invocation i.
Awaited(i) == promise[i]

\* transactionSigner, from its entry to the await (lines 36-54).
Call(i, bytesToSign) ==
    /\ calls[i].pc = "idle"
    /\ LET awsKmsKeyId == env
           hash == Keccak256(bytesToSign)
           command == SignCommandInput(hash, awsKmsKeyId)
           \* overlap: the invocations suspended at their await right now
           \* (history only, read by no action).
           entered == [calls[i] EXCEPT !.bytesToSign = Some(bytesToSign),
                                       !.awsKmsKeyId = awsKmsKeyId,
                                       !.overlap = {j \in Invocations :
                                                      calls[j].pc = "awaiting"}]
       IN  IF ConfigMissing(awsKmsKeyId)
             THEN /\ calls' = [calls EXCEPT ![i] =
                        [entered EXCEPT !.pc = "thrown",
                                        !.error = KeyIdMissing,
                                        !.steps = <<"config">>]]
                  /\ UNCHANGED <<sent, promise>>
             ELSE /\ calls' = [calls EXCEPT ![i] =
                        [entered EXCEPT !.pc = "awaiting",
                                        !.hash = Some(hash),
                                        !.steps = <<"config", "digest", "send">>]]
                  /\ sent' = [sent EXCEPT ![i] = SendCommand(@, command)]
                  /\ promise' = [promise EXCEPT ![i] =
                        [state |-> "pending", value |-> None]]
    /\ UNCHANGED <<env, kmsClient, codec>>

\* The service answers the request of invocation i with one of payloads.
KmsResolve(i, payloads) ==
    /\ promise[i].state = "pending"
    /\ \E payload \in payloads :
          promise' = [promise EXCEPT ![i] =
             [state |-> "fulfilled", value |-> Some([Signature |-> Some(payload)])]]
    /\ UNCHANGED <<env, kmsClient, calls, sent, codec>>

\* The service answers with a response that has no Signature member.
KmsNoSignature(i) ==
    /\ promise[i].state = "pending"
    /\ promise' = [promise EXCEPT ![i] =
          [state |-> "fulfilled", value |-> Some([Signature |-> None])]]
    /\ UNCHANGED <<env, kmsClient, calls, sent, codec>>

\* The send fails: transport or authorization error.
KmsReject(i) ==
    /\ promise[i].state = "pending"
    /\ promise' = [promise EXCEPT ![i] = [state |-> "rejected", value |-> None]]
    /\ UNCHANGED <<env, kmsClient, calls, sent, codec>>

\* transactionSigner, from the settled await to its end (lines 54-68).
Resume(i) ==
    /\ calls[i].pc = "awaiting"
    /\ Awaited(i).state \in {"fulfilled", "rejected"}
    /\ LET settled == Awaited(i)
           me == calls[i]
       IN  IF settled.state = "rejected"
             THEN calls' = [calls EXCEPT ![i] =
                     [me EXCEPT !.pc = "thrown", !.error = KmsSendError]]
           ELSE LET response == settled.value[1]
                    got == [me EXCEPT !.response = Some(response)]
                IN  IF PayloadMissing(response)
                      THEN calls' = [calls EXCEPT ![i] =
                              [got EXCEPT !.pc = "thrown",
                                          !.error = SignatureNotFound,
                                          !.steps = @ \o <<"check">>]]
                    ELSE IF response.Signature = None
                      THEN calls' = [calls EXCEPT ![i] =
                              [got EXCEPT !.pc = "thrown",
                                          !.error = BufferTypeError,
                                          !.steps = @ \o <<"check", "decode">>]]
                    ELSE LET ecdsaSignature == fromDER(response.Signature[1])
                         IN  IF ~ecdsaSignature.ok
                               THEN calls' = [calls EXCEPT ![i] =
                                       [got EXCEPT !.pc = "thrown",
                                                   !.error = ecdsaSignature.error,
                                                   !.steps = @ \o <<"check", "decode">>]]
                             ELSE calls' = [calls EXCEPT ![i] =
                                       [got EXCEPT !.pc = "returned",
                                                   !.ecdsaSignature = Some(ecdsaSignature),
                                                   !.result = Some(RawSignature(ecdsaSignature)),
                                                   !.steps = @ \o <<"check", "decode",
                                                                    "normalize", "concat">>]]
    /\ UNCHANGED <<env, kmsClient, sent, promise, codec>>

(***************************************************************************)
(* What the service may answer.                                            *)
(***************************************************************************)
\* Content octets of an INTEGER as they can come back: any length up to
\* two more than the component width.
Components == BytesOfLength(0, N + 2)

\* Every two-INTEGER signature over Components, in DER.
SignaturePayloads == {toBytes(r, s) : r \in Components, s \in Components}

\* SEQUENCEs of any shape over short members.
ShapeTags == {TagInteger} \cup NonIntegerTags
ShapeMembers == [tag : ShapeTags, value : BytesOfLength(0, 1)]
ShapeLists == UNION {[1..n -> ShapeMembers] : n \in 0..MaxElements}
ShapePayloads == {EncodeSequence(e) : e \in ShapeLists}

\* Bytes that are not one whole DER element.
TruncatedPayloads == {<<>>, <<TagSequence>>, <<TagSequence, 3, TagInteger>>,
                      <<TagSequence, 2, TagInteger, 1>>}

AllPayloads == SignaturePayloads \cup ShapePayloads \cup TruncatedPayloads

\* A handful of signatures for the interleaved invocations: full-width
\* components, one with a sign-guard octet, one a byte short.
FullWidth(b) == [k \in 1..N |-> b]
FewPayloads ==
    { toBytes(FullWidth(1), FullWidth(128)),
      toBytes(FullWidth(128), FullWidth(1)),
      toBytes(<<0>> \o FullWidth(128), FullWidth(1)),
      toBytes(Tail(FullWidth(1)), FullWidth(1)) }

\* Invocations of the callback interleaved at their await.
Next ==
    \E i \in Invocations :
        \/ \E bytesToSign \in Messages : Call(i, bytesToSign)
        \/ KmsResolve(i, FewPayloads)
        \/ KmsNoSignature(i)
        \/ KmsReject(i)
        \/ Resume(i)

Spec == Init /\ [][Next]_vars

\* One invocation, against everything the service may answer.
NextOne ==
    \/ \E bytesToSign \in Messages : Call(1, bytesToSign)
    \/ KmsResolve(1, AllPayloads)
    \/ KmsNoSignature(1)
    \/ KmsReject(1)
    \/ Resume(1)

SpecOne == Init /\ [][NextOne]_vars

(***************************************************************************)
(* The codec on its own: a Signature through toBytes, fromDER and the      *)
(* callback's component handling; and fromDER on SEQUENCEs of other shapes.*)
(***************************************************************************)
IntegerMember(v) == [tag |-> TagInteger, value |-> v]

\* Signatures {r, s} with components up to one octet above the width.
SignatureLists ==
    {<<IntegerMember(r), IntegerMember(s)>> :
        r \in BytesOfLength(0, N + 1), s \in BytesOfLength(0, N + 1)}

CodecInputs == SignatureLists \cup ShapeLists

IsTwoIntegers(elements) ==
    /\ Len(elements) = 2
    /\ elements[1].tag = TagInteger
    /\ elements[2].tag = TagInteger

InitCodec ==
    /\ env = Some("key-1")
    /\ kmsClient = "KMSClient"
    /\ calls = [i \in Invocations |-> IdleCall]
    /\ sent = [i \in Invocations |-> <<>>]
    /\ promise = [i \in Invocations |-> NoPromise]
    /\ codec \in {[IdleCodec EXCEPT !.stage = "input", !.elements = e] :
                    e \in CodecInputs}

\* new EcdsaAsn1Signature(r, s).toBytes()
CodecToBytes ==
    /\ codec.stage = "input"
    /\ IsTwoIntegers(codec.elements)
    /\ codec' = [codec EXCEPT
          !.stage = "encoded",
          !.der = toBytes(codec.elements[1].value, codec.elements[2].value)]
    /\ UNCHANGED <<env, kmsClient, calls, sent, promise>>

\* A DER SEQUENCE that is not a signature, as some other encoder wrote it.
CodecForeign ==
    /\ codec.stage = "input"
    /\ ~IsTwoIntegers(codec.elements)
    /\ codec' = [codec EXCEPT !.stage = "encoded",
                              !.der = EncodeSequence(codec.elements)]
    /\ UNCHANGED <<env, kmsClient, calls, sent, promise>>

\* EcdsaAsn1Signature.fromDER(der)
CodecFromDER ==
    /\ codec.stage = "encoded"
    /\ LET sig == fromDER(codec.der)
       IN  codec' = [codec EXCEPT
              !.stage = IF sig.ok THEN "decoded" ELSE "thrown",
              !.sig = sig]
    /\ UNCHANGED <<env, kmsClient, calls, sent, promise>>

\* The callback's handling of the two decoded components.
CodecRaw ==
    /\ codec.stage = "decoded"
    /\ codec' = [codec EXCEPT !.stage = "raw",
                              !.rawR = RawComponent(codec.sig.r),
                              !.rawS = RawComponent(codec.sig.s)]
    /\ UNCHANGED <<env, kmsClient, calls, sent, promise>>

NextCodec == CodecToBytes \/ CodecForeign \/ CodecFromDER \/ CodecRaw

SpecCodec == InitCodec /\ [][NextCodec]_vars
(***************************************************************************)
(* Properties.                                                             *)
(***************************************************************************)
Zeros(n) == [k \in 1..n |-> 0]

\* The width-N form the design asks of a component: a sign-guard octet is
\* stripped from N+1 octets, fewer than N octets are left-padded.
Normalizable(c) == Len(c) <= N \/ (Len(c) = N + 1 /\ c[1] = 0)
TooLarge(c) == ~Normalizable(c)
WidthN(c) ==
    IF Len(c) = N + 1 THEN Tail(c) ELSE Zeros(N - Len(c)) \o c

\* The content octets of a positive INTEGER in canonical DER, as a signing
\* service writes r and s: at least one octet, not zero, the sign bit
\* clear, and a leading 0x00 only in front of an octet with its high bit
\* set.
CanonicalInteger(c) ==
    /\ Len(c) >= 1
    /\ c # <<0>>
    /\ c[1] < 128
    /\ (Len(c) >= 2 /\ c[1] = 0) => c[2] >= 128

SignatureComponentTooLarge == "SignatureComponentTooLarge"

Finished(i) == calls[i].pc \in {"returned", "thrown"}

RECURSIVE Occurs(_, _)
Occurs(step, log) ==
    IF log = <<>> THEN FALSE
    ELSE log[1] = step \/ Occurs(step, Tail(log))

IsPrefix(a, b) == Len(a) <= Len(b) /\ a = SubSeq(b, 1, Len(a))

\* The response of invocation i carries a SEQUENCE of two canonical
\* positive INTEGERs.
AnsweredWithSignature(i) ==
    /\ calls[i].response # None
    /\ calls[i].response[1].Signature # None
    /\ LET element == DERElementFromBytes(calls[i].response[1].Signature[1])
       IN  /\ element.ok
           /\ element.tag = TagSequence
           /\ DecodeSequence(element.value).ok
           /\ LET members == DecodeSequence(element.value).elements
              IN  /\ IsTwoIntegers(members)
                  /\ CanonicalInteger(members[1].value)
                  /\ CanonicalInteger(members[2].value)

\* C1: a call that returns, on a signature whose r and s fit in N octets,
\* returns 2N octets: r at width N, then s at width N.
C1_RawIsTwoN ==
    \A i \in Invocations :
        (/\ calls[i].pc = "returned"
         /\ AnsweredWithSignature(i)
         /\ Normalizable(calls[i].ecdsaSignature[1].r)
         /\ Normalizable(calls[i].ecdsaSignature[1].s))
        => /\ Len(calls[i].result[1]) = 2 * N
           /\ calls[i].result[1] =
                 WidthN(calls[i].ecdsaSignature[1].r)
                    \o WidthN(calls[i].ecdsaSignature[1].s)

CanonicalSignature(elements) ==
    /\ IsTwoIntegers(elements)
    /\ CanonicalInteger(elements[1].value)
    /\ CanonicalInteger(elements[2].value)

\* C2: a component of exactly N octets comes out unchanged, a leading 0x00
\* included.
C2_WidthNUnchanged ==
    (codec.stage = "raw" /\ CanonicalSignature(codec.elements)) =>
        /\ Len(codec.sig.r) = N => codec.rawR = codec.sig.r
        /\ Len(codec.sig.s) = N => codec.rawS = codec.sig.s

\* C3: a component of fewer than N octets comes out left-padded with 0x00
\* to N octets.
C3_ShortLeftPadded ==
    (codec.stage = "raw" /\ CanonicalSignature(codec.elements)) =>
        /\ Len(codec.sig.r) < N =>
              codec.rawR = Zeros(N - Len(codec.sig.r)) \o codec.sig.r
        /\ Len(codec.sig.s) < N =>
              codec.rawS = Zeros(N - Len(codec.sig.s)) \o codec.sig.s

\* C4: a decoded component that is too large makes the call fail with
\* SignatureComponentTooLarge and return nothing; no result is longer
\* than 2N octets.
C4_OversizeRejected ==
    \A i \in Invocations :
        /\ (/\ Finished(i)
            /\ AnsweredWithSignature(i)
            /\ calls[i].ecdsaSignature # None
            /\ \/ TooLarge(calls[i].ecdsaSignature[1].r)
               \/ TooLarge(calls[i].ecdsaSignature[1].s))
           => /\ calls[i].pc = "thrown"
              /\ calls[i].error = SignatureComponentTooLarge
              /\ calls[i].result = None
        /\ calls[i].result # None => Len(calls[i].result[1]) <= 2 * N

\* C5: fromDER yields a Signature only for a SEQUENCE of exactly two
\* INTEGER-tagged members, and throws the shape error for any other
\* SEQUENCE (stated for members that each have content).
C5_ShapeChecked ==
    (/\ codec.stage \in {"decoded", "thrown", "raw"}
     /\ \A k \in 1..Len(codec.elements) : codec.elements[k].value # <<>>) =>
        IF IsTwoIntegers(codec.elements)
          THEN codec.sig.ok
          ELSE ~codec.sig.ok /\ codec.sig.error = InvalidEcdsaSig

\* C6: with the key identifier absent the call throws the configuration
\* error, having computed no digest and sent nothing to the service.
C6_NoKeyNoRemoteCall ==
    \A i \in Invocations :
        (calls[i].pc # "idle" /\ calls[i].awsKmsKeyId \in {None, Some("")})
        => /\ calls[i].pc = "thrown"
           /\ calls[i].error = KeyIdMissing
           /\ calls[i].steps = <<"config">>
           /\ calls[i].hash = None
           /\ sent[i] = <<>>
           /\ promise[i] = NoPromise
           /\ calls[i].result = None

C6_Witness ==
    \E i \in Invocations :
        /\ calls[i].pc = "thrown"
        /\ calls[i].awsKmsKeyId = None
        /\ calls[i].error = KeyIdMissing
        /\ calls[i].bytesToSign # None

\* C7: a rejected send, or a response without a Signature, ends the call in
\* failure: nothing returned, exactly one request sent, no decoding and no
\* normalization.
RemoteFailed(i) ==
    \/ promise[i].state = "rejected"
    \/ promise[i].state = "fulfilled" /\ promise[i].value[1].Signature = None

C7_RemoteFailureAborts ==
    \A i \in Invocations :
        /\ RemoteFailed(i) => Len(sent[i]) = 1
        /\ (RemoteFailed(i) /\ calls[i].pc # "awaiting")
           => /\ calls[i].pc = "thrown"
              /\ calls[i].error =
                    IF promise[i].state = "rejected"
                      THEN KmsSendError ELSE SignatureNotFound
              /\ calls[i].result = None
              /\ calls[i].ecdsaSignature = None
              /\ Len(sent[i]) = 1
              /\ ~Occurs("decode", calls[i].steps)
              /\ ~Occurs("normalize", calls[i].steps)

C7_Witness ==
    /\ \E i \in Invocations :
          /\ calls[i].pc = "thrown"
          /\ promise[i].state = "rejected"
          /\ calls[i].error = KmsSendError
    /\ \E i \in Invocations :
          /\ calls[i].pc = "thrown"
          /\ promise[i].state = "fulfilled"
          /\ calls[i].error = SignatureNotFound

\* C8: a Signature with components of at most N octets, taken through
\* toBytes and fromDER, decodes, and its components come out of the
\* callback's component handling (and at width N) as the originals do.
C8_RoundTrip ==
    (/\ codec.stage \in {"decoded", "thrown", "raw"}
     /\ IsTwoIntegers(codec.elements)
     /\ Len(codec.elements[1].value) <= N
     /\ Len(codec.elements[2].value) <= N)
    => /\ codec.sig.ok
       /\ WidthN(codec.sig.r) = WidthN(codec.elements[1].value)
       /\ WidthN(codec.sig.s) = WidthN(codec.elements[2].value)
       /\ codec.stage = "raw" =>
             /\ codec.rawR = RawComponent(codec.elements[1].value)
             /\ codec.rawS = RawComponent(codec.elements[2].value)

\* r begins with a high-bit octet, s with a zero octet, both N wide.
C8_Witness ==
    /\ codec.stage = "raw"
    /\ IsTwoIntegers(codec.elements)
    /\ Len(codec.elements[1].value) = N
    /\ Len(codec.elements[2].value) = N
    /\ codec.elements[1].value[1] >= 128
    /\ codec.elements[2].value[1] = 0
    /\ codec.rawR = codec.elements[1].value

\* C9: whatever the interleaving, a call that returns returns the raw form
\* of the response to its own request, which carried the digest of its own
\* message; a step changes the locals, the requests and the promise of one
\* invocation at most, and never the shared client.
OwnSignature(i) ==
    calls[i].pc = "returned"
    => /\ Len(sent[i]) = 1
       /\ sent[i][1].Message = Keccak256(calls[i].bytesToSign[1])
       /\ promise[i].state = "fulfilled"
       /\ calls[i].response = promise[i].value
       /\ promise[i].value[1].Signature # None
       /\ fromDER(promise[i].value[1].Signature[1]).ok
       /\ calls[i].result =
             Some(RawSignature(fromDER(promise[i].value[1].Signature[1])))

Touched(i) ==
    calls'[i] # calls[i] \/ sent'[i] # sent[i] \/ promise'[i] # promise[i]

OneInvocationPerStep ==
    /\ kmsClient' = kmsClient
    /\ env' = env
    /\ \A i, j \in Invocations : (Touched(i) /\ Touched(j)) => i = j

C9_Independent ==
    /\ [](\A i \in Invocations : OwnSignature(i))
    /\ [][OneInvocationPerStep]_vars

\* Two calls overlapped at their awaits, had different messages and were
\* answered differently, and both returned.
C9_Witness ==
    \E i, j \in Invocations :
        /\ i # j
        /\ calls[i].pc = "returned" /\ calls[j].pc = "returned"
        /\ i \in calls[j].overlap
        /\ calls[i].bytesToSign # calls[j].bytesToSign
        /\ calls[i].result # calls[j].result

\* C10: the steps of one call run in the order configuration check,
\* digest, remote call, payload check, decode, normalization,
\* concatenation; the call is suspended only right after the remote call,
\* which is issued at most once, with the digest already computed, and
\* decoding happens only once the response is there.
StepOrder ==
    <<"config", "digest", "send", "check", "decode", "normalize", "concat">>

C10_StepOrder ==
    \A i \in Invocations :
        /\ IsPrefix(calls[i].steps, StepOrder)
        /\ Len(sent[i]) <= 1
        /\ Len(sent[i]) = 1 <=> Occurs("send", calls[i].steps)
        /\ calls[i].hash # None <=> Occurs("digest", calls[i].steps)
        /\ Len(sent[i]) = 1 =>
              /\ calls[i].hash = Some(Keccak256(calls[i].bytesToSign[1]))
              /\ sent[i][1].Message = calls[i].hash[1]
        /\ calls[i].pc = "awaiting" <=>
              (calls[i].steps = <<"config", "digest", "send">>
                 /\ calls[i].response = None /\ calls[i].error = "")
        /\ promise[i].state # "none" <=> Len(sent[i]) = 1
        /\ Occurs("check", calls[i].steps) =>
              promise[i].state = "fulfilled" /\ calls[i].response = promise[i].value
        /\ Occurs("decode", calls[i].steps) =>
              calls[i].response[1].Signature # None
        /\ calls[i].pc = "returned" <=> calls[i].steps = StepOrder

C10_Witness ==
    \E i, j \in Invocations :
        /\ calls[i].pc = "returned" /\ calls[i].steps = StepOrder
        /\ calls[j].pc = "awaiting" /\ promise[j].state = "fulfilled"
====
